---- MODULE Spec2Model ----
(***************************************************************************)
(* A model of lazycommit (cmd/lazycommit/main.go): one run of main, the    *)
(* configuration loader, the diff collector with its .gitattributes scan,  *)
(* and the token truncator.                                                *)
(*                                                                         *)
(* Text is a sequence of one-character strings.  What the run reads from   *)
(* its surroundings (files, environment variables, subprocess results) is  *)
(* drawn from small sets at the step that reads it.                        *)
(***************************************************************************)
EXTENDS Integers, Sequences, FiniteSets, TLC

VARIABLES
    pc,               \* position of the run inside main / generateCommitMessage
    isGit, isJJ,      \* results of isGitRepo() and isJJRepo()
    cfgIn,            \* what loadConfig read: home dir, config files, environment
    config,           \* the Config value built by main
    stdout, stderr,   \* what has been written to the two output channels
    exitCode,         \* -1 while running, then the exit status of the process
    cmds,             \* the VCS / llm command lines executed so far
    patterns,         \* getGeneratedFilesFromGitattributes: patterns collected
    line,             \* the .gitattributes line scanned last
    matches,          \* capture group 1 of the match on that line, if any
    nLines,           \* number of .gitattributes lines scanned
    excludePatterns,  \* getDiff: the assembled exclude list
    diff,             \* output of the VCS diff command
    trunc,            \* what truncateDiff returned
    llmStdin          \* what the llm subprocess got on standard input

vars == <<pc, isGit, isJJ, cfgIn, config, stdout, stderr, exitCode, cmds,
          patterns, line, matches, nLines, excludePatterns, diff, trunc, llmStdin>>

----------------------------------------------------------------------------
(* Bounds of the model *)

MaxDiffLen == 5      \* longest diff text given to truncateDiff alone
MaxRunDiffLen == 1   \* longest diff text produced inside a whole run
MaxLines == 2        \* .gitattributes lines scanned
MaxLLMChunks == 1    \* writes of the llm subprocess to standard output

----------------------------------------------------------------------------
(* Characters *)

Digit == {"0", "1", "2", "3", "4", "5", "6", "7", "8", "9"}

Letter == {"a", "b", "c", "d", "e", "f", "g", "h", "i", "j", "k", "l", "m",
           "n", "o", "p", "q", "r", "s", "t", "u", "v", "w", "x", "y", "z",
           "D"}

Newline == {"\n", "\r"}

\* \s of the regular expressions
Whitespace == {" ", "\t", "\n", "\r", "\f"}

\* The other characters of the model's texts: [^\s\p{L}\p{N}]
Other == {"#", "=", "-", ".", "[", "]", "(", ")", ":", "~", "+"}

\* [^\s]
NonSpace == Letter \cup Digit \cup Other

IsLetter(c) == c \in Letter
IsDigit(c) == c \in Digit
IsNewline(c) == c \in Newline
IsOther(c) == c \in Other

\* The last index j >= i-1 such that every character of s[i..j] is in class.
RECURSIVE RunEnd(_, _, _)
RunEnd(s, i, class) ==
    IF i <= Len(s) /\ s[i] \in class THEN RunEnd(s, i + 1, class) ELSE i - 1

RECURSIVE Concat(_)
Concat(ss) == IF ss = <<>> THEN <<>> ELSE Head(ss) \o Concat(Tail(ss))

\* All sequences over S of length at most n.
RECURSIVE SeqsUpTo(_, _)
SeqsUpTo(S, n) ==
    IF n = 0 THEN {<<>>}
    ELSE LET shorter == SeqsUpTo(S, n - 1)
         IN  shorter \cup {Append(s, c) : s \in shorter, c \in S}

----------------------------------------------------------------------------
(* strconv / fmt *)

DigitChars == <<"0", "1", "2", "3", "4", "5", "6", "7", "8", "9">>

RECURSIVE FormatNat(_)
FormatNat(n) ==
    IF n < 10 THEN <<DigitChars[n + 1]>>
    ELSE Append(FormatNat(n \div 10), DigitChars[(n % 10) + 1])

\* fmt.Sprintf("%d", n)
FormatInt(n) == IF n < 0 THEN <<"-">> \o FormatNat(0 - n) ELSE FormatNat(n)

----------------------------------------------------------------------------
(* The tokenizer (cl100k_base): the text is cut into pieces by the         *)
(* encoding's split pattern                                                *)
(*   [^\r\n\p{L}\p{N}]?\p{L}+ | \p{N}{1,3} | ?[^\s\p{L}\p{N}]+[\r\n]*      *)
(*   | \s*[\r\n]+ | \s+(?!\S) | \s+                                        *)
(* (the contraction alternative needs an apostrophe, which the texts of    *)
(* the model do not contain).  Byte-pair merges never cross a piece; every *)
(* piece of the model's texts is taken to be one entry of the vocabulary,  *)
(* as runs of one to three digits are.  A token is written as the text it  *)
(* stands for, so decoding is concatenation.  0 means "no match".          *)

\* [^\r\n\p{L}\p{N}]?\p{L}+
AltWord(s, i) ==
    LET j == IF /\ ~IsNewline(s[i]) /\ ~IsLetter(s[i]) /\ ~IsDigit(s[i])
                /\ i + 1 <= Len(s) /\ IsLetter(s[i + 1])
             THEN i + 1 ELSE i
    IN  IF IsLetter(s[j]) THEN RunEnd(s, j, Letter) ELSE 0

\* \p{N}{1,3}
AltNumber(s, i) ==
    IF IsDigit(s[i])
    THEN LET e == RunEnd(s, i, Digit) IN IF e > i + 2 THEN i + 2 ELSE e
    ELSE 0

\* " "?[^\s\p{L}\p{N}]+[\r\n]*
AltPunct(s, i) ==
    LET j == IF s[i] = " " /\ i + 1 <= Len(s) /\ IsOther(s[i + 1])
             THEN i + 1 ELSE i
    IN  IF IsOther(s[j])
        THEN RunEnd(s, RunEnd(s, j, Other) + 1, Newline)
        ELSE 0

\* \s*[\r\n]+
AltNewlines(s, i) ==
    LET e == RunEnd(s, i, Whitespace)
        nl == {p \in i..e : IsNewline(s[p])}
    IN  IF nl = {} THEN 0 ELSE CHOOSE p \in nl : \A q \in nl : q <= p

\* \s+(?!\S)
AltSpaceBefore(s, i) ==
    LET e == RunEnd(s, i, Whitespace)
    IN  IF e < i THEN 0
        ELSE IF e = Len(s) THEN e
        ELSE IF e > i THEN e - 1
        ELSE 0

\* \s+
AltSpace(s, i) ==
    LET e == RunEnd(s, i, Whitespace) IN IF e < i THEN 0 ELSE e

\* End of the piece that starts at s[i]: the first alternative that matches.
PieceEnd(s, i) ==
    IF AltWord(s, i) > 0 THEN AltWord(s, i)
    ELSE IF AltNumber(s, i) > 0 THEN AltNumber(s, i)
    ELSE IF AltPunct(s, i) > 0 THEN AltPunct(s, i)
    ELSE IF AltNewlines(s, i) > 0 THEN AltNewlines(s, i)
    ELSE IF AltSpaceBefore(s, i) > 0 THEN AltSpaceBefore(s, i)
    ELSE AltSpace(s, i)

RECURSIVE EncodeFrom(_, _)
EncodeFrom(s, i) ==
    IF i > Len(s) THEN <<>>
    ELSE LET e == PieceEnd(s, i)
         IN  <<SubSeq(s, i, e)>> \o EncodeFrom(s, e + 1)

\* enc.Encode(text): the token sequence of a text
Encode(s) == EncodeFrom(s, 1)

\* enc.Decode(tokens): the text of a token sequence
Decode(tokens) == Concat(tokens)

----------------------------------------------------------------------------
(* truncateDiff *)

NoticeHead ==
    <<"\n", "\n", "[", "D", "i", "f", "f", " ", "t", "r", "u", "n", "c", "a",
      "t", "e", "d", " ", "d", "u", "e", " ", "t", "o", " ", "s", "i", "z",
      "e", " ", "-", " ", "s", "h", "o", "w", "i", "n", "g", " ", "f", "i",
      "r", "s", "t", " ">>

NoticeTail == <<" ", "t", "o", "k", "e", "n", "s", "]">>

\* The notice appended to a truncated diff
Notice(maxTokens) == NoticeHead \o FormatInt(maxTokens) \o NoticeTail

TokFailures == {"none", "get", "encode", "decode"}

NoResult == [text |-> <<>>, err |-> "unset", panic |-> FALSE]

\* truncateDiff with a strict comparison against the budget
truncateDiff_Strict(d, maxTokens, fail) ==
    IF fail = "get" THEN [text |-> <<>>, err |-> "get", panic |-> FALSE]
    ELSE IF fail = "encode" THEN [text |-> <<>>, err |-> "encode", panic |-> FALSE]
    ELSE LET tokens == Encode(d) IN
         IF Len(tokens) < maxTokens
         THEN [text |-> d, err |-> "nil", panic |-> FALSE]
         ELSE IF maxTokens < 0
         THEN [text |-> <<>>, err |-> "nil", panic |-> TRUE]
         ELSE IF fail = "decode"
         THEN [text |-> <<>>, err |-> "decode", panic |-> FALSE]
         ELSE [text |-> Decode(SubSeq(tokens, 1, maxTokens)) \o Notice(maxTokens),
               err |-> "nil", panic |-> FALSE]

\* truncateDiff(diff, maxTokens); fail names the tokenizer call that returns
\* an error in this call, if any.  tokens[:maxTokens] panics on a negative
\* bound.
truncateDiff(d, maxTokens, fail) ==
    IF fail = "get" THEN [text |-> <<>>, err |-> "get", panic |-> FALSE]
    ELSE IF fail = "encode" THEN [text |-> <<>>, err |-> "encode", panic |-> FALSE]
    ELSE LET tokens == Encode(d) IN
         IF Len(tokens) <= maxTokens
         THEN [text |-> d, err |-> "nil", panic |-> FALSE]
         ELSE IF maxTokens < 0
         THEN [text |-> <<>>, err |-> "nil", panic |-> TRUE]
         ELSE IF fail = "decode"
         THEN [text |-> <<>>, err |-> "decode", panic |-> FALSE]
         ELSE [text |-> Decode(SubSeq(tokens, 1, maxTokens)) \o Notice(maxTokens),
               err |-> "nil", panic |-> FALSE]

----------------------------------------------------------------------------
(* getGeneratedFilesFromGitattributes: the line pattern                    *)
(*   ^([^#][^\s]+)\s+.*linguist-generated\s*=\s*true                       *)

LinguistGenerated ==
    <<"l", "i", "n", "g", "u", "i", "s", "t", "-", "g", "e", "n", "e", "r",
      "a", "t", "e", "d">>

TrueLit == <<"t", "r", "u", "e">>

HasPrefixAt(l, p, lit) ==
    /\ p + Len(lit) - 1 <= Len(l)
    /\ SubSeq(l, p, p + Len(lit) - 1) = lit

\* linguist-generated\s*=\s*true matches the text starting at l[p]
AttrAt(l, p) ==
    /\ HasPrefixAt(l, p, LinguistGenerated)
    /\ LET eq == RunEnd(l, p + Len(LinguistGenerated), Whitespace) + 1
       IN  /\ eq <= Len(l)
           /\ l[eq] = "="
           /\ HasPrefixAt(l, RunEnd(l, eq + 1, Whitespace) + 1, TrueLit)

\* End of capture group 1, [^#][^\s]+ followed by \s: 0 if it does not match.
\* The greedy [^\s]+ has to stop right before a whitespace character, so it
\* takes the whole run of non-whitespace that starts at the second character.
GroupEnd(l) ==
    IF Len(l) >= 2 /\ l[1] # "#" /\ l[2] \in NonSpace
    THEN LET k == RunEnd(l, 2, NonSpace) IN IF k < Len(l) THEN k ELSE 0
    ELSE 0

\* re.FindStringSubmatch(line): <<group 1>> on a match, <<>> otherwise.
\* After the group, \s+ takes at least one character and .* any number.
FindStringSubmatch(l) ==
    LET k == GroupEnd(l)
    IN  IF k > 0 /\ \E p \in (k + 2)..Len(l) : AttrAt(l, p)
        THEN <<SubSeq(l, 1, k)>>
        ELSE <<>>

---------------------------------------------------------------------------------------------------------------------------------------------------
(* loadConfig *)

DefaultMaxDiffTokens == 12500

\* DefaultConfig
DefaultConfig == [MaxDiffTokens |-> DefaultMaxDiffTokens, ModelName |-> <<>>]

\* Value of a string of decimal digits
RECURSIVE DigitsValue(_)
DigitsValue(s) ==
    IF s = <<>> THEN 0
    ELSE 10 * DigitsValue(SubSeq(s, 1, Len(s) - 1))
         + (CHOOSE d \in 0..9 : DigitChars[d + 1] = s[Len(s)])

\* strconv.Atoi: an optional sign followed by one or more decimal digits
Atoi(s) ==
    LET signed == s # <<>> /\ s[1] \in {"+", "-"}
        body == IF signed THEN Tail(s) ELSE s
    IN  IF body = <<>> \/ \E k \in 1..Len(body) : ~IsDigit(body[k])
        THEN [ok |-> FALSE, val |-> 0]
        ELSE [ok |-> TRUE,
              val |-> IF signed /\ s[1] = "-" THEN 0 - DigitsValue(body)
                      ELSE DigitsValue(body)]

\* A config file: absent, not decodable, or its decoded keys.  hasMax tells
\* whether the file sets max_diff_tokens; an empty model is an unset model_name.
AbsentFile == [kind |-> "absent", hasMax |-> FALSE, max |-> 0, model |-> <<>>]
MalformedFile == [kind |-> "malformed", hasMax |-> FALSE, max |-> 0, model |-> <<>>]

\* toml.DecodeFile(path, &config): the keys of the file overwrite the fields
DecodeFile(file, cfg) ==
    [MaxDiffTokens |-> IF file.hasMax THEN file.max ELSE cfg.MaxDiffTokens,
     ModelName |-> IF file.model # <<>> THEN file.model ELSE cfg.ModelName]

\* The environment overrides at the end of loadConfig
EnvOverride(in, cfg) ==
    LET parsed == Atoi(in.envMaxTokens)
        useMax == in.envMaxTokens # <<>> /\ parsed.ok
    IN  [config |->
            [MaxDiffTokens |-> IF useMax THEN parsed.val ELSE cfg.MaxDiffTokens,
             ModelName |-> IF in.envModel # <<>> THEN in.envModel
                           ELSE cfg.ModelName],
         msgs |-> (IF useMax THEN <<"Using max tokens from environment">> ELSE <<>>)
                  \o (IF in.envModel # <<>>
                      THEN <<"Using model from environment">> ELSE <<>>)]

\* loadConfig(): in.xdg and in.home are the files at the two config paths,
\* tried in this order; the first one that exists is decoded.
loadConfig(in) ==
    IF ~in.homeOK THEN [config |-> DefaultConfig, err |-> TRUE, msgs |-> <<>>]
    ELSE LET first == IF in.xdg.kind # "absent" THEN in.xdg ELSE in.home
         IN  IF first.kind = "malformed"
             THEN [config |-> DefaultConfig, err |-> TRUE, msgs |-> <<>>]
             ELSE LET loaded == first.kind # "absent"
                      base == IF loaded THEN DecodeFile(first, DefaultConfig)
                              ELSE DefaultConfig
                      env == EnvOverride(in, base)
                  IN  [config |-> env.config, err |-> FALSE,
                       msgs |-> <<IF loaded THEN "Loaded configuration"
                                  ELSE "No configuration file found, using defaults">>
                                \o env.msgs]

----------------------------------------------------------------------------
(* getDiff and getBranchName: the command lines *)

PnpmLock == <<"p", "n", "p", "m", "-", "l", "o", "c", "k", ".", "y", "a", "m", "l">>
YarnLock == <<"y", "a", "r", "n", ".", "l", "o", "c", "k">>
PackageLock == <<"p", "a", "c", "k", "a", "g", "e", "-", "l", "o", "c", "k", ".",
                 "j", "s", "o", "n">>

commonExcludes == <<PnpmLock, YarnLock, PackageLock>>

GitExcludePrefix == <<":", "(", "e", "x", "c", "l", "u", "d", "e", ")">>
JJExcludePrefix == <<"~">>

ArgDiff == <<"d", "i", "f", "f">>
ArgCached == <<"-", "-", "c", "a", "c", "h", "e", "d">>
ArgDashDash == <<"-", "-">>
ArgDot == <<".">>
ArgGit == <<"-", "-", "g", "i", "t">>

\* fmt.Sprintf(prefix + "%s", pattern) for every pattern
RECURSIVE ExcludeArgs(_, _)
ExcludeArgs(prefix, pats) ==
    IF pats = <<>> THEN <<>>
    ELSE <<prefix \o Head(pats)>> \o ExcludeArgs(prefix, Tail(pats))

\* getDiff with the lock files put in front of the parsed patterns
getDiff_LocksFirst(git, generated) ==
    LET excl == commonExcludes \o generated
    IN  [excludePatterns |-> excl,
         cmd |-> IF git
                 THEN [bin |-> "git",
                       args |-> <<ArgDiff, ArgCached, ArgDashDash, ArgDot>>
                                \o ExcludeArgs(GitExcludePrefix, excl)]
                 ELSE [bin |-> "jj",
                       args |-> <<ArgDiff, ArgGit>>
                                \o ExcludeArgs(JJExcludePrefix, excl)]]

\* getDiff up to exec.Command: generated holds the patterns parsed from
\* .gitattributes (empty when the file was not read)
getDiff(git, generated) ==
    LET excl == generated \o commonExcludes
    IN  [excludePatterns |-> excl,
         cmd |-> IF git
                 THEN [bin |-> "git",
                       args |-> <<ArgDiff, ArgCached, ArgDashDash, ArgDot>>
                                \o ExcludeArgs(GitExcludePrefix, excl)]
                 ELSE [bin |-> "jj",
                       args |-> <<ArgDiff, ArgGit>>
                                \o ExcludeArgs(JJExcludePrefix, excl)]]

\* getBranchName: the command it runs (fixed arguments left out)
getBranchName(git) ==
    IF git THEN [bin |-> "git", args |-> <<>>]
    ELSE [bin |-> "jj", args |-> <<>>]

ArgM == <<"-", "m">>
ArgS == <<"-", "s">>
\* Stands for the rendered prompt text
Prompt == <<"p">>

\* The llm command line built by generateCommitMessage
llmCmd(modelName) ==
    IF modelName # <<>>
    THEN [bin |-> "llm", args |-> <<ArgM, modelName, ArgS, Prompt>>]
    ELSE [bin |-> "llm", args |-> <<ArgS, Prompt>>]

----------------------------------------------------------------------------
(* What a run can read from its surroundings *)

FileMaxValues == {-1, 0, 2}
FileModels == {<<>>, <<"f">>}

ConfigFiles ==
    {AbsentFile, MalformedFile}
    \cup {[kind |-> "ok", hasMax |-> FALSE, max |-> 0, model |-> m] : m \in FileModels}
    \cup {[kind |-> "ok", hasMax |-> TRUE, max |-> v, model |-> m] :
            v \in FileMaxValues, m \in FileModels}

\* Values of LAZYCOMMIT_MAX_TOKENS (empty: not set) and LAZYCOMMIT_MODEL
EnvMaxValues == {<<>>, <<"x">>, <<"-", "1">>, <<"0">>, <<"3">>}
EnvModels == {<<>>, <<"e">>}

NoConfigInput ==
    [homeOK |-> TRUE, xdg |-> AbsentFile, home |-> AbsentFile,
     envMaxTokens |-> <<>>, envModel |-> <<>>]

\* The files loadConfig does not look at are left absent: both after a home
\* directory error, the second when the first exists.
ConfigInputs ==
    {in \in [homeOK : BOOLEAN, xdg : ConfigFiles, home : ConfigFiles,
             envMaxTokens : EnvMaxValues, envModel : EnvModels] :
        /\ ~in.homeOK => in.xdg = AbsentFile /\ in.home = AbsentFile
        /\ in.xdg # AbsentFile => in.home = AbsentFile}

DiffChars == {"0", "1", "\n"}
Diffs == SeqsUpTo(DiffChars, MaxDiffLen)
RunDiffs == SeqsUpTo({"1", "\n"}, MaxRunDiffLen)
Budgets == {-1, 0, 1, 2, 3, DefaultMaxDiffTokens}

Sp == <<" ">>
LinguistGeneratedTrue == LinguistGenerated \o <<"=">> \o TrueLit

\* .gitattributes lines a run can meet
RunLines ==
    {YarnLock \o Sp \o LinguistGeneratedTrue,
     <<"a", "a">> \o Sp \o LinguistGeneratedTrue,
     <<"a">> \o Sp \o LinguistGeneratedTrue,
     <<"#">> \o YarnLock \o Sp \o LinguistGeneratedTrue,
     YarnLock \o Sp \o <<"a">> \o LinguistGeneratedTrue}

----------------------------------------------------------------------------
(* The run *)

ZeroConfig == [MaxDiffSize |-> 0, IsGit |-> FALSE, ModelName |-> <<>>]

\* A message written by the program itself
Info(msg) == [by |-> "main", kind |-> "info", msg |-> msg]
Warning(msg) == [by |-> "main", kind |-> "warning", msg |-> msg]
Error(msg) == [by |-> "main", kind |-> "error", msg |-> msg]

Init ==
    /\ pc = "start"
    /\ isGit = FALSE /\ isJJ = FALSE
    /\ cfgIn = NoConfigInput
    /\ config = ZeroConfig
    /\ stdout = <<>> /\ stderr = <<>>
    /\ exitCode = -1
    /\ cmds = <<>>
    /\ patterns = <<>> /\ line = <<>> /\ matches = <<>> /\ nLines = 0
    /\ excludePatterns = <<>>
    /\ diff = <<>>
    /\ trunc = NoResult
    /\ llmStdin = <<>>

\* fmt.Printf of an error message followed by os.Exit(1)
Fatal(msg) ==
    /\ stdout' = Append(stdout, Error(msg))
    /\ exitCode' = 1
    /\ pc' = "exited"

\* main: commandExists("llm")
CheckLLM ==
    /\ pc = "start"
    /\ \E found \in BOOLEAN :
         IF found
         THEN pc' = "detect" /\ UNCHANGED <<stdout, exitCode>>
         ELSE Fatal("Error: 'llm' command is not installed")
    /\ UNCHANGED <<isGit, isJJ, cfgIn, config, stderr, cmds, patterns, line, matches,
                   nLines, excludePatterns, diff, trunc, llmStdin>>

\* main: isGitRepo(), isJJRepo()
DetectVCS ==
    /\ pc = "detect"
    /\ \E g \in BOOLEAN, j \in BOOLEAN :
         /\ isGit' = g
         /\ isJJ' = j
         /\ IF ~g /\ ~j
            THEN Fatal("Error: Neither Git nor Jujutsu repository detected")
            ELSE pc' = "loadConfig" /\ UNCHANGED <<stdout, exitCode>>
    /\ UNCHANGED <<cfgIn, config, stderr, cmds, patterns, line, matches, nLines,
                   excludePatterns, diff, trunc, llmStdin>>

\* useGit with the preference lost: Git whenever Git is detected
useGit_GitFirst(g, j) == g

\* main: useGit := isGit && !isJJ
useGit(g, j) == g /\ ~j

\* main: loadConfig() and the Config value
LoadConfig ==
    /\ pc = "loadConfig"
    /\ \E in \in ConfigInputs :
         LET r == loadConfig(in)
             appConfig == IF r.err THEN DefaultConfig ELSE r.config
             git == useGit(isGit, isJJ)
         IN  /\ cfgIn' = in
             /\ stdout' = IF r.err
                          THEN Append(stdout,
                                 Warning("Warning: Error loading configuration"))
                          ELSE stdout
             /\ config' = [MaxDiffSize |-> appConfig.MaxDiffTokens,
                           IsGit |-> git,
                           ModelName |-> appConfig.ModelName]
             /\ stderr' = stderr \o [i \in DOMAIN r.msgs |-> Info(r.msgs[i])]
                          \o <<IF git THEN Info("Using Git for version control")
                               ELSE Info("Using Jujutsu for version control")>>
    /\ pc' = "getBranch"
    /\ UNCHANGED <<isGit, isJJ, exitCode, cmds, patterns, line, matches, nLines,
                   excludePatterns, diff, trunc, llmStdin>>

\* generateCommitMessage: getBranchName (its output only feeds the prompt)
GetBranch ==
    /\ pc = "getBranch"
    /\ cmds' = Append(cmds, getBranchName(config.IsGit))
    /\ pc' = "renderPrompt"
    /\ UNCHANGED <<isGit, isJJ, cfgIn, config, stdout, stderr, exitCode,
                   patterns, line, matches, nLines, excludePatterns, diff, trunc, llmStdin>>

\* generateCommitMessage: renderPromptTemplate.  Reading the template file
\* can fail, before the line about the template goes to standard error;
\* parsing or executing the template can fail after it.
RenderPrompt ==
    /\ pc = "renderPrompt"
    /\ \E outcome \in {"rendered", "readError", "parseError"} :
         /\ stderr' = IF outcome = "readError" THEN stderr
                       ELSE Append(stderr, Info("Using template"))
         /\ IF outcome = "rendered"
            THEN pc' = "getDiff" /\ UNCHANGED <<stdout, exitCode>>
            ELSE Fatal("Error: failed to render prompt template")
    /\ UNCHANGED <<isGit, isJJ, cfgIn, config, cmds, patterns, line, matches, nLines,
                   excludePatterns, diff, trunc, llmStdin>>

\* getDiff: fileExists(".gitattributes") and the os.Open of the parser
GetDiffOpen ==
    /\ pc = "getDiff"
    /\ \E file \in {"absent", "unreadable", "opened"} :
         IF ~config.IsGit \/ file = "absent"
         THEN pc' = "runDiff" /\ UNCHANGED <<stdout, exitCode>>
         ELSE IF file = "unreadable"
         THEN Fatal("Error: failed to get diff: failed to parse .gitattributes")
         ELSE pc' = "scan" /\ UNCHANGED <<stdout, exitCode>>
    /\ UNCHANGED <<isGit, isJJ, cfgIn, config, stderr, cmds, patterns, line, matches,
                   nLines, excludePatterns, diff, trunc, llmStdin>>

\* getGeneratedFilesFromGitattributes: one iteration of the scanner loop
ScanLine(from) ==
    /\ pc = "scan"
    /\ nLines < MaxLines
    /\ \E l \in from :
         /\ line' = l
         /\ matches' = FindStringSubmatch(l)
         /\ patterns' = patterns \o FindStringSubmatch(l)
    /\ nLines' = nLines + 1
    /\ UNCHANGED <<pc, isGit, isJJ, cfgIn, config, stdout, stderr, exitCode,
                   cmds, excludePatterns, diff, trunc, llmStdin>>

\* getGeneratedFilesFromGitattributes: end of input and scanner.Err()
ScanEnd ==
    /\ pc = "scan"
    /\ \E ok \in BOOLEAN :
         IF ok
         THEN pc' = "runDiff" /\ UNCHANGED <<stdout, exitCode>>
         ELSE Fatal("Error: failed to get diff: failed to parse .gitattributes")
    /\ UNCHANGED <<isGit, isJJ, cfgIn, config, stderr, cmds, patterns, line, matches,
                   nLines, excludePatterns, diff, trunc, llmStdin>>

\* getDiff: the exclude list, the command and its outcome
RunDiff(outputs) ==
    /\ pc = "runDiff"
    /\ LET g == getDiff(config.IsGit, patterns)
       IN  /\ excludePatterns' = g.excludePatterns
           /\ cmds' = Append(cmds, g.cmd)
    /\ \E ok \in BOOLEAN :
         IF ok
         THEN /\ \E out \in outputs : diff' = out
              /\ pc' = "truncate"
              /\ UNCHANGED <<stdout, exitCode>>
         ELSE /\ Fatal("Error: failed to get diff")
              /\ UNCHANGED diff
    /\ UNCHANGED <<isGit, isJJ, cfgIn, config, stderr, patterns, line, matches, nLines,
                   trunc, llmStdin>>

\* generateCommitMessage: truncateDiff and the warning on its error
Truncate ==
    /\ pc = "truncate"
    /\ \E fail \in TokFailures :
         LET r == truncateDiff(diff, config.MaxDiffSize, fail)
         IN  /\ trunc' = r
             /\ IF r.panic
                THEN /\ pc' = "exited"
                     /\ exitCode' = 2
                     /\ stderr' = Append(stderr, [by |-> "runtime", kind |-> "panic",
                                             msg |-> "slice bounds out of range"])
                ELSE /\ pc' = "startLLM"
                     /\ exitCode' = exitCode
                     /\ stderr' = IF r.err # "nil"
                                  THEN Append(stderr,
                                         Warning("Warning: Failed to tokenize diff"))
                                  ELSE stderr
    /\ UNCHANGED <<isGit, isJJ, cfgIn, config, stdout, cmds, patterns, line, matches,
                   nLines, excludePatterns, diff, llmStdin>>

\* truncatedDiff without the fallback to the raw diff
truncatedDiff_NoFallback == trunc.text

\* generateCommitMessage: the text handed to the llm subprocess
truncatedDiff == IF trunc.err # "nil" THEN diff ELSE trunc.text

\* generateCommitMessage: the llm command is built and started
StartLLM ==
    /\ pc = "startLLM"
    /\ cmds' = Append(cmds, llmCmd(config.ModelName))
    /\ stderr' = Append(stderr, IF config.ModelName # <<>> THEN Info("Using model")
                                ELSE Info("Using default llm model"))
    /\ llmStdin' = truncatedDiff
    /\ pc' = "llmRunning"
    /\ UNCHANGED <<isGit, isJJ, cfgIn, config, stdout, exitCode, patterns, line, matches,
                   nLines, excludePatterns, diff, trunc>>

LLMChunks == Len(SelectSeq(stdout, LAMBDA w : w.by = "llm"))

\* The llm subprocess writes to the standard output it inherited
LLMWrite ==
    /\ pc = "llmRunning"
    /\ LLMChunks < MaxLLMChunks
    /\ stdout' = Append(stdout, [by |-> "llm", kind |-> "output", msg |-> "commit message"])
    /\ UNCHANGED <<pc, isGit, isJJ, cfgIn, config, stderr, exitCode, cmds,
                   patterns, line, matches, nLines, excludePatterns, diff, trunc, llmStdin>>

\* llmCmd.Run() returns; main exits
LLMExit ==
    /\ pc = "llmRunning"
    /\ \E ok \in BOOLEAN :
         IF ok
         THEN pc' = "exited" /\ exitCode' = 0 /\ UNCHANGED stdout
         ELSE Fatal("Error: llm failed")
    /\ UNCHANGED <<isGit, isJJ, cfgIn, config, stderr, cmds, patterns, line, matches,
                   nLines, excludePatterns, diff, trunc, llmStdin>>

Next ==
    \/ CheckLLM
    \/ DetectVCS
    \/ LoadConfig
    \/ GetBranch
    \/ RenderPrompt
    \/ GetDiffOpen
    \/ ScanLine(RunLines)
    \/ ScanEnd
    \/ RunDiff(RunDiffs)
    \/ Truncate
    \/ StartLLM
    \/ LLMWrite
    \/ LLMExit

Spec == Init /\ [][Next]_vars

----------------------------------------------------------------------------
(* truncateDiff on its own: every diff text and budget of the bounds *)

InitTruncate ==
    /\ pc = "truncate"
    /\ isGit \in BOOLEAN /\ isJJ = ~isGit
    /\ cfgIn = NoConfigInput
    /\ \E b \in Budgets :
         config = [MaxDiffSize |-> b, IsGit |-> isGit, ModelName |-> <<>>]
    /\ stdout = <<>> /\ stderr = <<>>
    /\ exitCode = -1
    /\ cmds = <<>>
    /\ patterns = <<>> /\ line = <<>> /\ matches = <<>> /\ nLines = 0
    /\ excludePatterns = commonExcludes
    /\ diff \in Diffs
    /\ trunc = NoResult
    /\ llmStdin = <<>>

NextTruncate == Truncate \/ StartLLM

SpecTruncate == InitTruncate /\ [][NextTruncate]_vars

----------------------------------------------------------------------------
(* Properties *)

Range(f) == {f[i] : i \in DOMAIN f}
NoDuplicates(f) == \A i \in DOMAIN f : \A j \in DOMAIN f : f[i] = f[j] => i = j

\* loadConfig has returned and main has built its Config
ConfigBuilt ==
    \E i \in DOMAIN stderr :
        stderr[i].msg \in {"Using Git for version control",
                          "Using Jujutsu for version control"}
\* truncateDiff has been called
TruncateCalled == trunc.err # "unset"
\* the diff command has been executed
DiffCommandRun == \E i \in DOMAIN cmds : Len(cmds[i].args) > 0 /\ cmds[i].bin # "llm"
\* the llm subprocess has been started
LLMStarted == \E i \in DOMAIN cmds : cmds[i].bin = "llm"
FatalExit == pc = "exited" /\ exitCode = 1

\* C1: whenever the diff encodes to more than maxTokens tokens, the text
\* truncateDiff returns re-encodes to at most maxTokens tokens.
C1_ResultWithinBudget ==
    (TruncateCalled /\ trunc.err = "nil" /\ ~trunc.panic
       /\ Len(Encode(diff)) > config.MaxDiffSize)
    => Len(Encode(trunc.text)) <= config.MaxDiffSize

\* The budget the precedence rule of C2 names: the environment override when
\* it is set, else the value of the first existing config file, else 12500.
FirstExisting(in) == IF in.xdg.kind # "absent" THEN in.xdg ELSE in.home
ClaimedBudget(in) ==
    IF in.envMaxTokens # <<>> THEN Atoi(in.envMaxTokens).val
    ELSE IF FirstExisting(in).hasMax THEN FirstExisting(in).max
    ELSE DefaultMaxDiffTokens

\* C2: the budget is the LAZYCOMMIT_MAX_TOKENS override when that is set (to
\* an integer), whatever the config files hold and whether they load;
\* otherwise the max_diff_tokens of the first existing config file; otherwise
\* the default 12500.
C2_BudgetPrecedence ==
    (ConfigBuilt /\ (cfgIn.envMaxTokens # <<>> => Atoi(cfgIn.envMaxTokens).ok))
    => config.MaxDiffSize = ClaimedBudget(cfgIn)

\* C3: a run that ends on a fatal condition exits non-zero and has written its
\* error message to standard error, not to standard output.
C3_ErrorsOnStderr ==
    FatalExit =>
        /\ \A i \in DOMAIN stdout : stdout[i].kind # "error"
        /\ \E i \in DOMAIN stderr : stderr[i].kind = "error"

\* C4: a run that ends in a fatal failure has written nothing to standard
\* output.
C4_NoOutputOnFailure == FatalExit => stdout = <<>>

Selected == IF isJJ THEN "jj" ELSE "git"
Excludes(cmd) ==
    IF cmd.bin = "git" THEN SubSeq(cmd.args, 5, Len(cmd.args))
    ELSE SubSeq(cmd.args, 3, Len(cmd.args))

\* C5: Jujutsu is selected whenever it is detected, Git only when Git is
\* detected and Jujutsu is not, the run aborts when neither is; the branch
\* and diff commands use the binary and the exclusion syntax of the selected
\* VCS only.
C5_VCSSelection ==
    /\ ConfigBuilt /\ (isGit \/ isJJ) => config.IsGit = ~isJJ
    /\ pc \notin {"start", "detect"} /\ ~isGit /\ ~isJJ
         => pc = "exited" /\ exitCode = 1 /\ cmds = <<>>
    /\ \A i \in DOMAIN cmds :
         cmds[i].bin # "llm" =>
            /\ cmds[i].bin = Selected
            /\ \A k \in DOMAIN Excludes(cmds[i]) :
                 LET arg == Excludes(cmds[i])[k]
                 IN  IF Selected = "git"
                     THEN HasPrefixAt(arg, 1, GitExcludePrefix)
                     ELSE /\ HasPrefixAt(arg, 1, JJExcludePrefix)
                          /\ ~HasPrefixAt(arg, 1, GitExcludePrefix)

C5_Witness ==
    /\ isGit /\ isJJ /\ pc = "truncate"
    /\ Len(cmds) = 2 /\ cmds[2].bin = "jj" /\ Len(cmds[2].args) = 5

ConfigLoadFailed == ConfigBuilt /\ loadConfig(cfgIn).err
TokenizationFailed == trunc.err \in {"get", "encode", "decode"}

\* C6: a config load failure does not end the run, which goes on with the
\* built-in defaults; after a tokenizer failure in truncateDiff the llm
\* subprocess is still started and gets the untruncated diff on standard input.
C6_NonFatalFailures ==
    /\ ConfigLoadFailed =>
          /\ config.MaxDiffSize = DefaultMaxDiffTokens
          /\ config.ModelName = <<>>
          /\ pc = "exited" => Len(cmds) > 0
    /\ TokenizationFailed =>
          /\ ~trunc.panic
          /\ pc \in {"startLLM", "llmRunning", "exited"}
          /\ pc # "startLLM" => LLMStarted /\ llmStdin = diff

C6_Witness ==
    /\ ConfigLoadFailed /\ TokenizationFailed
    /\ pc = "llmRunning" /\ diff # <<>> /\ llmStdin = diff

\* C7: a diff that encodes to at most maxTokens tokens is returned unchanged,
\* without notice and without error.
C7_IdentityWithinBudget ==
    (TruncateCalled /\ trunc.err \notin {"get", "encode"}
       /\ Len(Encode(diff)) <= config.MaxDiffSize)
    => trunc = [text |-> diff, err |-> "nil", panic |-> FALSE]

C7_Witness ==
    /\ TruncateCalled /\ diff # <<>>
    /\ Len(Encode(diff)) = config.MaxDiffSize
    /\ trunc.text = diff

\* The whitespace-separated fields of a line
RECURSIVE Fields(_)
Fields(l) ==
    IF l = <<>> THEN <<>>
    ELSE IF l[1] \in Whitespace THEN Fields(Tail(l))
    ELSE LET e == RunEnd(l, 1, NonSpace)
         IN  <<SubSeq(l, 1, e)>> \o Fields(SubSeq(l, e + 1, Len(l)))

\* What the rule of C8 makes a line contribute: its leading path pattern if
\* it is not a comment and linguist-generated=true is among its attributes.
ClaimedContribution(l) ==
    LET f == Fields(l)
    IN  IF /\ Len(f) >= 2
           /\ f[1][1] # "#"
           /\ \E k \in 2..Len(f) : f[k] = LinguistGeneratedTrue
        THEN <<f[1]>>
        ELSE <<>>

\* C8: a line adds its leading path pattern if and only if it is a
\* non-comment line whose attribute list contains linguist-generated=true.
C8_LineRule == nLines > 0 => matches = ClaimedContribution(line)

\* C9 as stated: the assembled exclude list holds no pattern twice.
C9_UniquePatterns == DiffCommandRun => NoDuplicates(excludePatterns)

\* C9, amended: the exclude list is the parsed patterns in file order, repeats
\* kept, followed by the three lock-file names once each; it is free of
\* duplicates exactly when the parsed patterns are pairwise distinct and none
\* of them is a lock-file name; every entry is one exclusion argument.
C9_AssembledList ==
    DiffCommandRun =>
        LET n == Len(excludePatterns)
            cmd == cmds[2]
        IN  /\ n = Len(patterns) + 3
            /\ SubSeq(excludePatterns, 1, n - 3) = patterns
            /\ \A c \in Range(commonExcludes) :
                 Cardinality({i \in (n - 2)..n : excludePatterns[i] = c}) = 1
            /\ NoDuplicates(excludePatterns)
                 <=> /\ NoDuplicates(patterns)
                     /\ Range(patterns) \cap Range(commonExcludes) = {}
            /\ Len(Excludes(cmd)) = n
            /\ \A k \in 1..n :
                 LET arg == Excludes(cmd)[k]
                     p == excludePatterns[k]
                 IN  SubSeq(arg, Len(arg) - Len(p) + 1, Len(arg)) = p

C9_Witness ==
    /\ DiffCommandRun
    /\ Len(patterns) = 2
    /\ ~NoDuplicates(excludePatterns)
    /\ patterns[1] # patterns[2]

\* C10: the maxTokens handed to truncateDiff is a positive integer, so the
\* slice of the first maxTokens tokens is well defined.
C10_PositiveBudget ==
    TruncateCalled => config.MaxDiffSize > 0 /\ ~trunc.panic

====
